---- MODULE Spec2Model ----
(***************************************************************************)
(* State-machine model of the Intel Owl classic client                     *)
(* (src/intel_owl_client.py): intel_owl_client() validates the parsed      *)
(* command line and calls _pyintelowl_logic(), which prepares the input,   *)
(* optionally asks for an existing analysis, submits a new one, polls for  *)
(* the result and prints it.                                               *)
(*                                                                         *)
(* The remote service is the environment.  An answer envelope is read the  *)
(* way the code reads it, one .get() at a time: a field is drawn from its  *)
(* value set at the place where the code reads it, so a field the code     *)
(* never reads on a path has no influence on that path.  Every remote call *)
(* may also raise a transport exception instead of answering.              *)
(***************************************************************************)
EXTENDS Integers, Sequences, FiniteSets, TLC

\* ---------------------------------------------------------------- bounds
MaxJobId == 1   \* job ids handed out by the service are 1..MaxJobId
MaxValueLen == 2   \* length of the strings whose normalization is compared

\* ------------------------------------------------------- program constants
\* the cap written as two minutes instead of twenty
polling_max_tries_short == 60 * 2

polling_max_tries == 60 * 20

\* ------------------------------------------------------------ value sets
Statuses ==
  { "", "not_available", "accepted", "running", "pending",
    "reported_without_fails", "reported_with_fails", "failed", "invalid_id" }

TerminalStatuses == {"reported_without_fails", "reported_with_fails", "failed"}

\* job_id of an answer: 0 stands for a missing or empty job_id (falsy)
JobIds == 0..MaxJobId

\* results payload of a poll answer; <<>> is a missing or empty list
ResultsValues == {<<>>, <<"report">>}

\* elapsed_time_in_seconds of a poll answer; "[]" is the default of a
\* missing field
ElapsedValues == {"[]", "12"}

\* analyzer configuration returned by get_analyzer_configs; "{}" is the
\* default of a missing answer
ConfigValues == {"{}", "cfg"}

\* -a is action="append": absent (None) or a non-empty list; both None and
\* the empty list are falsy and are written <<>>
AnalyzerLists == {<<>>, <<"Yara">>}

\* values given with -v, as strings of characters
ObservableValues == {<<"E", "x">>, <<"e", "X">>, <<"e", "x">>}

Ops == { "get_analyzer_configs", "ask_analysis_availability",
         "send_file_analysis_request", "send_observable_analysis_request",
         "ask_analysis_result" }

\* contents of the file named by -f when it exists
FileBytes == <<"b">>

\* ------------------------------------------------------------- variables
VARIABLES
  pc,                     \* position of the process
  args,                   \* the parsed command line (argparse namespace)
  md5, results, elapsed_time, get_configuration_only,
  analysis_available, job_id_to_get, chance,
  binary,                 \* file bytes read, <<>> before the read
  raised,                 \* the exception caught at lines 310-315, "" if none
  exit_code,              \* -1 while the process runs
  printed,                \* what reached stdout: "", a message or a dump
  printed_config,         \* the configuration pprint()ed at line 160
  calls,                  \* number of calls made, per remote operation
  file_read,              \* TRUE once the file was opened and read
  poll_ids,               \* job ids passed to ask_analysis_result
  requests,               \* analyzer selections sent with avail/submit
  errors_from,            \* operation whose answer had non-empty errors
  avail_job,              \* job_id that came with an availability status
                          \* other than "not_available", 0 if there was none
  submit_status,          \* status of the submission answer, "?" if unread
  poll_monitor,           \* summary of the poll answers so far
  avail_status,           \* status read from the availability answer: "",
                          \* "not_available", "other", or "?" if unread
  norm                    \* two observable values and what the input
                          \* preparer makes of them (NormSpec only)

vars ==
  << pc, args, md5, results, elapsed_time, get_configuration_only,
     analysis_available, job_id_to_get, chance, binary, raised,
     exit_code, printed, printed_config, calls, file_read, poll_ids,
     requests, errors_from, avail_job, submit_status, poll_monitor,
     avail_status, norm >>

\* ------------------------------------------------------ pure operations
\* a lower() that flips the case instead of lowering it
LowerChar_Swap(c) ==
  CASE c = "E" -> "e"
    [] c = "e" -> "E"
    [] c = "X" -> "x"
    [] c = "x" -> "X"
    [] OTHER   -> c

\* str.lower() on one character and on a string (line 137)
LowerChar(c) ==
  CASE c = "E" -> "e"
    [] c = "X" -> "x"
    [] OTHER   -> c

lower(s) == [i \in 1..Len(s) |-> LowerChar(s[i])]

\* hashlib.md5(...).hexdigest() (lines 135, 138): an injective tag of the
\* bytes hashed; <<>> is None
hexdigest(bytes) == <<"md5">> \o bytes

\* the analyzer selection passed with a request (lines 174-175, 210/216,
\* 221/226)
\* lines 137-138: the value and the fingerprint sent for the observable v
Prepared(v) == [value |-> lower(v), md5 |-> hexdigest(lower(v))]

Selection == <<args.analyzers_list, args.run_all_available_analyzers>>

\* the submission operation chosen at lines 207-229
SubmitOp ==
  IF args.command = "file" THEN "send_file_analysis_request"
  ELSE "send_observable_analysis_request"

NoMonitor ==
  [ only_running_pending |-> TRUE,  \* every poll answered running/pending
    seq_pos       |-> 0,    \* polls so far are the first seq_pos of
                            \* running, running, pending,
                            \* reported_without_fails; -1 once they are not
    terminal_at   |-> 0,    \* index of the first poll with a terminal status
    terminal_results |-> <<>>,
    terminal_elapsed |-> "None",
    rejected_at   |-> 0,    \* index of the first poll answering
                            \* invalid_id / not_available
    nostatus_at   |-> 0 ]   \* index of the first poll answering without
                            \* a status

WatchedSequence ==
  <<"running", "running", "pending", "reported_without_fails">>

\* ------------------------------------------------------------------ Init
\* The parsed command line.  file_exists stands for os.path.exists(args.file)
\* and value for args.value; they only exist with their subcommand.
ArgsSpace ==
  { a \in [ command : {"file", "observable", "none"},
            file_exists : BOOLEAN,
            value : ObservableValues \cup {<<>>},
            get_configuration : BOOLEAN,
            analyzers_list : AnalyzerLists,
            run_all_available_analyzers : BOOLEAN,
            skip_check_analysis_availability : BOOLEAN,
            show_colors : BOOLEAN ] :
      /\ (a.command # "file" => ~a.file_exists)
      /\ (a.command = "observable" <=> a.value # <<>>) }

\* nothing is being normalized side by side
NoNorm ==
  [ pc |-> "off", a |-> <<>>, b |-> <<>>,
    sent_a |-> [value |-> <<>>, md5 |-> <<>>],
    sent_b |-> [value |-> <<>>, md5 |-> <<>>],
    again  |-> [value |-> <<>>, md5 |-> <<>>] ]

ProgramInit ==
  /\ pc = "validate"
  /\ args \in ArgsSpace
  /\ md5 = <<>>
  /\ results = <<>>
  /\ elapsed_time = "None"
  /\ get_configuration_only = FALSE
  /\ analysis_available = FALSE
  /\ job_id_to_get = 0
  /\ chance = 0
  /\ binary = <<>>
  /\ raised = ""
  /\ exit_code = -1
  /\ printed = ""
  /\ printed_config = ""
  /\ calls = [op \in Ops |-> 0]
  /\ file_read = FALSE
  /\ poll_ids = {}
  /\ requests = {}
  /\ errors_from = ""
  /\ avail_job = 0
  /\ submit_status = "?"
  /\ poll_monitor = NoMonitor
  /\ avail_status = "?"

Init ==
  /\ ProgramInit
  /\ norm = NoNorm

\* ---------------------------------------------------------------- helpers
\* lines 317-331, the final print.  args.value only exists with the
\* observable subcommand: reading it at line 320 in any other mode is an
\* AttributeError outside the try block, which ends the process with a
\* traceback and exit code 1.
FinalPrint ==
  /\ pc' = "done"
  /\ IF args.show_colors
     THEN IF args.command = "observable"
          THEN exit_code' = 0 /\ printed' = "colors"
          ELSE exit_code' = 1 /\ printed' = "traceback"
     ELSE exit_code' = 0 /\ printed' = "results"

\* raise inside the try block: control goes to the handlers at lines 310-315
\* and then to the final print
Raise(kind) ==
  /\ raised' = kind
  /\ FinalPrint

Called(op) == calls' = [calls EXCEPT ![op] = @ + 1]

\* exit(n)
Exit(n, out) ==
  /\ pc' = "done"
  /\ exit_code' = n
  /\ printed' = out

\* ------------------------------------------------ intel_owl_client(), 105-118
\* the two usage errors of lines 106 and 112
\* line 106 with the test of run_all_available_analyzers inverted
NoAnalyzerGiven_Inverted ==
  /\ ~args.get_configuration
  /\ args.analyzers_list = <<>>
  /\ args.run_all_available_analyzers

NoAnalyzerGiven ==
  /\ ~args.get_configuration
  /\ args.analyzers_list = <<>>
  /\ ~args.run_all_available_analyzers

\* line 112 left out
BothAnalyzersGiven_Never == FALSE

BothAnalyzersGiven ==
  /\ ~args.get_configuration
  /\ args.analyzers_list # <<>>
  /\ args.run_all_available_analyzers

Validate ==
  /\ pc = "validate"
  /\ IF NoAnalyzerGiven THEN Exit(2, "usage")
     ELSE IF BothAnalyzersGiven THEN Exit(3, "usage")
     ELSE /\ pc' = "prepare"
          /\ UNCHANGED <<exit_code, printed>>
  /\ UNCHANGED << args, md5, results, elapsed_time, get_configuration_only,
                  analysis_available, job_id_to_get, chance, binary,
                  raised, printed_config, calls, file_read, poll_ids,
                  requests, errors_from, avail_job, submit_status,
                  poll_monitor, avail_status, norm >>

\* ------------------------------------------- _pyintelowl_logic(), 122-151
\* the mode chosen by the if/elif chain of lines 129-144
Mode ==
  IF args.command = "file" THEN "file"
  ELSE IF args.command = "observable" THEN "observable"
  ELSE IF args.get_configuration THEN "configuration"
  ELSE "none"

\* a check of line 130 that never finds the file missing
FileMissing_Never == FALSE

\* line 130
FileMissing == ~args.file_exists

Prepare ==
  /\ pc = "prepare"
  /\ CASE Mode = "file" /\ FileMissing ->
            /\ Raise("file does not exists")
            /\ UNCHANGED <<args, md5, binary, file_read,
                           get_configuration_only>>
       [] Mode = "file" /\ ~FileMissing ->
            /\ binary' = FileBytes
            /\ file_read' = TRUE
            /\ md5' = hexdigest(FileBytes)
            /\ pc' = "availability"
            /\ UNCHANGED <<args, raised, get_configuration_only, exit_code,
                           printed>>
       [] Mode = "observable" ->
            /\ args' = [args EXCEPT !.value = lower(@)]
            /\ md5' = hexdigest(lower(args.value))
            /\ pc' = "availability"
            /\ UNCHANGED <<binary, file_read, raised, get_configuration_only,
                           exit_code, printed>>
       [] Mode = "configuration" ->
            /\ get_configuration_only' = TRUE
            /\ pc' = "get_config"
            /\ UNCHANGED <<args, md5, binary, file_read, raised, exit_code,
                           printed>>
       [] Mode = "none" ->
            /\ Raise("you must specify the type of the analysis")
            /\ UNCHANGED <<args, md5, binary, file_read,
                           get_configuration_only>>
  /\ UNCHANGED << results, elapsed_time, analysis_available, job_id_to_get,
                  chance, printed_config, calls, poll_ids, requests,
                  errors_from, avail_job, submit_status, poll_monitor,
                  avail_status, norm >>

\* ------------------------------------------------- configuration, 153-161
\* non-empty errors are logged (line 157); the answer is printed and the
\* process exits with 0 in either case (lines 158-161)
GetConfiguration ==
  /\ pc = "get_config"
  /\ Called("get_analyzer_configs")
  /\ \/ /\ Raise("transport")
        /\ UNCHANGED <<errors_from, printed_config>>
     \/ \E errors \in BOOLEAN, cfg \in ConfigValues :
          /\ errors_from' = IF errors THEN "get_analyzer_configs" ELSE ""
          /\ printed_config' = cfg
          /\ Exit(0, "configuration")
          /\ UNCHANGED raised
  /\ UNCHANGED << args, md5, results, elapsed_time, get_configuration_only,
                  analysis_available, job_id_to_get, chance, binary,
                  file_read, poll_ids, requests, avail_job, submit_status,
                  poll_monitor, avail_status, norm >>

\* ------------------------------------------------ availability, 163-202
\* line 190: the status that makes the client reuse an existing job
Reusable(st) == st # "not_available"

\* the checks of lines 185, 241, 278 left out
NoStatus_Never(st) == FALSE

\* lines 185, 241, 278: an answer without status
NoStatus(st) == st = ""

\* what avail_status keeps of the status st of an availability answer
StatusClass(st) ==
  IF st \in {"", "not_available"} THEN st ELSE "other"

\* the values left by one availability answer
AvailabilityLeaves(r, ef, avail, job, aj, ast) ==
  /\ IF r = ""
     THEN pc' = "submit" /\ UNCHANGED <<raised, exit_code, printed>>
     ELSE Raise(r)
  /\ errors_from' = ef
  /\ analysis_available' = avail
  /\ job_id_to_get' = job
  /\ avail_job' = aj
  /\ avail_status' = ast

AskAvailability ==
  /\ pc = "availability"
  /\ IF args.skip_check_analysis_availability
     THEN /\ pc' = "submit"
          /\ UNCHANGED << raised, errors_from, analysis_available,
                          job_id_to_get, avail_job, calls, requests,
                          exit_code, printed, avail_status >>
     ELSE /\ Called("ask_analysis_availability")
          /\ requests' = requests \cup {Selection}
          /\ \/ AvailabilityLeaves("transport", "", FALSE, 0, 0, "?")
             \/ AvailabilityLeaves("errors", "ask_analysis_availability",
                                   FALSE, 0, 0, "?")
             \/ \E st \in Statuses :
                  IF NoStatus(st)
                  THEN AvailabilityLeaves("without status", "", FALSE, 0, 0,
                                          StatusClass(st))
                  ELSE IF Reusable(st)
                  THEN \E job \in JobIds :
                         IF job # 0
                         THEN AvailabilityLeaves("", "", TRUE, job, job,
                                                 StatusClass(st))
                         ELSE AvailabilityLeaves("without job_id", "",
                                                 TRUE, job, 0,
                                                 StatusClass(st))
                  ELSE AvailabilityLeaves("", "", FALSE, 0, 0,
                                          StatusClass(st))
  /\ UNCHANGED << args, md5, results, elapsed_time, get_configuration_only,
                  chance, binary, printed_config, file_read, poll_ids,
                  submit_status, poll_monitor, norm >>

\* --------------------------------------------------- submission, 204-262
\* line 205 ignoring the availability answer
NeedsSubmission_Always == TRUE

\* line 205 with the test inverted
NeedsSubmission_Inverted == analysis_available

\* line 205
NeedsSubmission == ~analysis_available

\* line 246 rejecting only a failed submission
Accepted_Loose(st) == st # "failed"

\* line 246
Accepted(st) == st = "accepted"

SubmissionLeaves(r, ef, sst, job) ==
  /\ IF r = ""
     THEN pc' = "poll" /\ UNCHANGED <<raised, exit_code, printed>>
     ELSE Raise(r)
  /\ errors_from' = ef
  /\ submit_status' = sst
  /\ job_id_to_get' = job

SendAnalysisRequest ==
  /\ pc = "submit"
  /\ IF ~NeedsSubmission
     THEN /\ pc' = "poll"
          /\ UNCHANGED << raised, errors_from, submit_status, job_id_to_get,
                          calls, requests, exit_code, printed >>
     ELSE IF args.command \notin {"file", "observable"}
     THEN /\ SubmissionLeaves("NotImplementedError", errors_from,
                              submit_status, job_id_to_get)
          /\ UNCHANGED <<calls, requests>>
     ELSE /\ Called(SubmitOp)
          /\ requests' = requests \cup {Selection}
          /\ \/ SubmissionLeaves("transport", "", submit_status,
                                 job_id_to_get)
             \/ SubmissionLeaves("errors", SubmitOp, submit_status,
                                 job_id_to_get)
             \/ \E st \in Statuses :
                  IF NoStatus(st)
                  THEN SubmissionLeaves("without status", "", st,
                                        job_id_to_get)
                  ELSE IF ~Accepted(st)
                  THEN SubmissionLeaves("unexpected result status", "", st,
                                        job_id_to_get)
                  ELSE \E job \in JobIds :
                         SubmissionLeaves(
                           IF job # 0 THEN "" ELSE "without job_id",
                           "", st, job)
  /\ UNCHANGED << args, md5, results, elapsed_time, get_configuration_only,
                  analysis_available, chance, binary, printed_config,
                  file_read, poll_ids, avail_job, poll_monitor,
                  avail_status, norm >>

\* ------------------------------------------------------ polling, 264-308
\* line 283 without "not_available"
Rejected_OnlyInvalid(st) == st = "invalid_id"

\* line 283
Rejected(st) == st \in {"invalid_id", "not_available"}

\* line 296 without "failed"
Terminal_NoFailed(st) ==
  st \in {"reported_without_fails", "reported_with_fails"}

\* line 296
Terminal(st) == st \in TerminalStatuses

\* the loop counter passed instead of the job id
PolledJob_Chance == chance

\* the job id passed to ask_analysis_result at line 270
PolledJob == job_id_to_get

\* a loop that never advances its counter
NextChance_Stuck == chance

\* the iteration counter after an iteration that did not leave the loop
\* (continue at line 288, or the end of the loop body)
NextChance == chance + 1

\* poll_monitor after the poll answered st ("!" for an answer with errors
\* or a transport exception, "" for an answer without status)
Monitored(st, res, el) ==
  LET n == calls["ask_analysis_result"] + 1
      m == poll_monitor
  IN  [ only_running_pending |->
          m.only_running_pending /\ st \in {"running", "pending"},
        seq_pos |->
          IF m.seq_pos = n - 1 /\ n <= Len(WatchedSequence)
             /\ st = WatchedSequence[n]
          THEN n ELSE -1,
        terminal_at |->
          IF m.terminal_at = 0 /\ st \in TerminalStatuses
          THEN n ELSE m.terminal_at,
        terminal_results |->
          IF m.terminal_at = 0 /\ st \in TerminalStatuses
          THEN res ELSE m.terminal_results,
        terminal_elapsed |->
          IF m.terminal_at = 0 /\ st \in TerminalStatuses
          THEN el ELSE m.terminal_elapsed,
        rejected_at |->
          IF m.rejected_at = 0 /\ st \in {"invalid_id", "not_available"}
          THEN n ELSE m.rejected_at,
        nostatus_at |->
          IF m.nostatus_at = 0 /\ st = ""
          THEN n ELSE m.nostatus_at ]

\* lines 304-308, reached when the loop ends (break, or the range is
\* exhausted): the exception raised there for the results res, "" if none
AfterLoop(res) ==
  IF res = <<>> THEN "Reached polling timeout without results" ELSE ""

\* the values left by one iteration: where = "raise" (an exception inside
\* the loop body), "break" or "next"
PollLeaves(where, r, ef, res, el) ==
  LET ends == where = "break"
              \/ (where = "next" /\ ~(NextChance < polling_max_tries))
  IN  /\ errors_from' = ef
      /\ results' = res
      /\ elapsed_time' = el
      /\ chance' = IF where = "next" THEN NextChance ELSE chance
      /\ IF where = "raise" THEN Raise(r)
         ELSE IF ends THEN raised' = AfterLoop(res) /\ FinalPrint
         ELSE pc' = "poll" /\ UNCHANGED <<raised, exit_code, printed>>

\* one iteration of the loop of lines 268-303, with lines 304-308 when the
\* loop ends in it
Poll ==
  /\ pc = "poll"
  /\ chance < polling_max_tries
  /\ Called("ask_analysis_result")
  /\ poll_ids' = poll_ids \cup {PolledJob}
  /\ \/ /\ PollLeaves("raise", "transport", "", results, elapsed_time)
        /\ poll_monitor' = Monitored("!", <<>>, "None")
     \/ /\ PollLeaves("raise", "errors", "ask_analysis_result", results,
                      elapsed_time)
        /\ poll_monitor' = Monitored("!", <<>>, "None")
     \/ \E st \in Statuses :
          IF NoStatus(st)
          THEN /\ PollLeaves("raise", "without status", "", results,
                             elapsed_time)
               /\ poll_monitor' = Monitored(st, <<>>, "None")
          ELSE IF Rejected(st)
          THEN /\ PollLeaves("raise", "gave status", "", results,
                             elapsed_time)
               /\ poll_monitor' = Monitored(st, <<>>, "None")
          ELSE IF st = "running"
          THEN /\ PollLeaves("next", "", "", results, elapsed_time)
               /\ poll_monitor' = Monitored(st, <<>>, "None")
          ELSE IF st = "pending"
          THEN /\ PollLeaves("next", "", "", results, elapsed_time)
               /\ poll_monitor' = Monitored(st, <<>>, "None")
          ELSE IF Terminal(st)
          THEN \E res \in ResultsValues, el \in ElapsedValues :
                 /\ PollLeaves("break", "", "", res, el)
                 /\ poll_monitor' = Monitored(st, res, el)
          ELSE /\ PollLeaves("next", "", "", results, elapsed_time)
               /\ poll_monitor' = Monitored(st, <<>>, "None")
  /\ UNCHANGED << args, md5, get_configuration_only, analysis_available,
                  job_id_to_get, binary, printed_config, file_read,
                  requests, avail_job, submit_status, avail_status, norm >>

\* ------------------------------------------------------- specifications
Next ==
  \/ Validate
  \/ Prepare
  \/ GetConfiguration
  \/ AskAvailability
  \/ SendAnalysisRequest
  \/ Poll

Spec == Init /\ [][Next]_vars

\* the process is sequential and keeps running until it exits
FairSpec == Spec /\ WF_vars(Next)

\* ---------------------------------------- the input preparer on its own
\* Two runs in observable mode, given the values norm.a and norm.b: each
\* applies lines 137-138 to its value, and the first result is then given
\* to lines 137-138 once more.
NormChars == {"E", "e", "X", "x", "1"}

RECURSIVE StringsUpTo(_)
StringsUpTo(n) ==
  IF n = 0 THEN {<<>>}
  ELSE LET shorter == StringsUpTo(n - 1)
       IN  shorter \cup {Append(t, c) : t \in shorter, c \in NormChars}

program ==
  << pc, args, md5, results, elapsed_time, get_configuration_only,
     analysis_available, job_id_to_get, chance, binary, raised,
     exit_code, printed, printed_config, calls, file_read, poll_ids,
     requests, errors_from, avail_job, submit_status, poll_monitor,
     avail_status >>

NormArgs ==
  [ command |-> "observable", file_exists |-> FALSE, value |-> <<"e", "x">>,
    get_configuration |-> FALSE, analyzers_list |-> <<"Yara">>,
    run_all_available_analyzers |-> FALSE,
    skip_check_analysis_availability |-> FALSE, show_colors |-> FALSE ]

NormInit ==
  /\ ProgramInit
  /\ args = NormArgs
  /\ \E a \in StringsUpTo(MaxValueLen), b \in StringsUpTo(MaxValueLen) :
       norm = [NoNorm EXCEPT !.pc = "input", !.a = a, !.b = b]

NormalizeBoth ==
  /\ norm.pc = "input"
  /\ norm' = [norm EXCEPT !.pc = "once",
                          !.sent_a = Prepared(norm.a),
                          !.sent_b = Prepared(norm.b)]
  /\ UNCHANGED program

NormalizeAgain ==
  /\ norm.pc = "once"
  /\ norm' = [norm EXCEPT !.pc = "twice",
                          !.again = Prepared(norm.sent_a.value)]
  /\ UNCHANGED program

NormNext ==
  \/ NormalizeBoth
  \/ NormalizeAgain

NormSpec == NormInit /\ [][NormNext]_vars

TypeOK ==
  /\ pc \in {"validate", "prepare", "get_config", "availability", "submit",
             "poll", "done"}
  /\ args \in ArgsSpace
  /\ results \in ResultsValues
  /\ job_id_to_get \in JobIds
  /\ chance \in 0..polling_max_tries
  /\ exit_code \in {-1, 0, 1, 2, 3}
  /\ analysis_available \in BOOLEAN

\* ------------------------------------------------------------ properties
Ended == pc = "done"

Polls == calls["ask_analysis_result"]

Submissions ==
  calls["send_file_analysis_request"]
  + calls["send_observable_analysis_request"]

NoRemoteCall == \A op \in Ops : calls[op] = 0

\* C1: when the availability answer carries a status other than
\* "not_available" together with a job id J, the run never makes a
\* submission call and every ask_analysis_result call is made with J.
C1_ReuseSkipsSubmission ==
  avail_job # 0 => /\ Submissions = 0
                   /\ poll_ids \subseteq {avail_job}

C1_Witness ==
  /\ avail_job # 0
  /\ Polls >= 2
  /\ poll_ids = {avail_job}
  /\ pc = "done"

\* C2: a submission answer whose status is not "accepted" aborts the run
\* before the polling loop: no ask_analysis_result call, empty results.
C2_UnacceptedAborts ==
  submit_status \notin {"?", "accepted"} =>
    /\ Polls = 0
    /\ results = <<>>
    /\ Ended

C2_Witness ==
  /\ submit_status = "running"
  /\ pc = "done"
  /\ Polls = 0

\* C3: polling always terminates: whatever the service answers, a run
\* makes at most 1200 ask_analysis_result calls and then reaches its end.
C3_PollingTerminates ==
  /\ [](Polls <= 1200)
  /\ <>(pc = "done")

C3_Witness ==
  /\ pc = "done"
  /\ Polls = 1200
  /\ raised = "Reached polling timeout without results"

\* C4 (as amended): the loop exits at the first poll that returns a
\* terminal status, with that answer's results and elapsed time, and no
\* poll follows it; for the polled statuses running, running, pending,
\* reported_without_fails the loop exits on the 4th iteration and the run
\* ends with the results payload of the 4th answer.
C4_ExitAtFirstTerminal ==
  /\ poll_monitor.terminal_at # 0 =>
       /\ Polls = poll_monitor.terminal_at
       /\ results = poll_monitor.terminal_results
       /\ elapsed_time = poll_monitor.terminal_elapsed
       /\ Ended
  /\ poll_monitor.seq_pos = Len(WatchedSequence) =>
       /\ poll_monitor.terminal_at = 4
       /\ Polls = 4
       /\ Ended

C4_Witness ==
  /\ poll_monitor.seq_pos = 4
  /\ results # <<>>
  /\ elapsed_time = "12"
  /\ pc = "done"

\* C4 (as stated): as above, and for that status sequence the run ends
\* with non-empty results.
C4_Original ==
  /\ C4_ExitAtFirstTerminal
  /\ poll_monitor.seq_pos = Len(WatchedSequence) => results # <<>>

\* C5: a run whose polls all answer "running" or "pending" makes exactly
\* 1200 ask_analysis_result calls and ends in the timeout error with empty
\* results.
C5_TimeoutAfterCap ==
  (Ended /\ Polls > 0 /\ poll_monitor.only_running_pending) =>
    /\ Polls = 1200
    /\ raised = "Reached polling timeout without results"
    /\ results = <<>>

C5_Witness ==
  /\ pc = "done"
  /\ poll_monitor.only_running_pending
  /\ Polls = 1200
  /\ raised = "Reached polling timeout without results"

\* C6: a non-empty errors list in the answer of any remote operation aborts
\* the run: nothing of that answer is printed or kept as a result, and no
\* further remote call is made.
C6_ErrorsAbort ==
  /\ [](errors_from # "" => /\ printed_config = ""
                            /\ printed # "configuration"
                            /\ results = <<>>)
  /\ [][errors_from # "" => calls' = calls]_vars

\* C7 (as amended): with both --analyzers-list and
\* --run-all-available-analyzers and without --get-configuration, the
\* process exits with code 3 before any file read or remote call.
C7_BothExit3 ==
  ( /\ args.analyzers_list # <<>>
    /\ args.run_all_available_analyzers
    /\ ~args.get_configuration
    /\ pc # "validate" ) =>
      /\ pc = "done"
      /\ exit_code = 3
      /\ ~file_read
      /\ NoRemoteCall

C7_Witness ==
  /\ pc = "done"
  /\ exit_code = 3
  /\ args.analyzers_list # <<>>
  /\ args.run_all_available_analyzers

\* C7 (as stated): with both flags the process exits with code 3 before
\* any file read or remote call.
C7_Original ==
  ( /\ args.analyzers_list # <<>>
    /\ args.run_all_available_analyzers
    /\ pc # "validate" ) =>
      /\ pc = "done"
      /\ exit_code = 3
      /\ ~file_read
      /\ NoRemoteCall

\* C8: with neither --analyzers-list nor --run-all-available-analyzers and
\* without --get-configuration, the process exits with code 2 before any
\* file read or remote call.
C8_NeitherExit2 ==
  ( /\ args.analyzers_list = <<>>
    /\ ~args.run_all_available_analyzers
    /\ ~args.get_configuration
    /\ pc # "validate" ) =>
      /\ pc = "done"
      /\ exit_code = 2
      /\ ~file_read
      /\ NoRemoteCall

C8_Witness ==
  /\ pc = "done"
  /\ exit_code = 2
  /\ args.analyzers_list = <<>>
  /\ ~args.run_all_available_analyzers

\* C9: with --get-configuration, with or without a subcommand,
\* get_analyzer_configs is the only remote call of the run, and the run
\* ends by printing the configuration and exiting with code 0.
C9_ConfigurationOnly ==
  args.get_configuration =>
    /\ \A op \in Ops \ {"get_analyzer_configs"} : calls[op] = 0
    /\ calls["get_analyzer_configs"] <= 1
    /\ (pc = "done" /\ raised = "" =>
          /\ calls["get_analyzer_configs"] = 1
          /\ printed = "configuration"
          /\ exit_code = 0)

\* C10: a poll answer with status "invalid_id" or "not_available" aborts
\* the run as an error: it is the last poll and the results stay empty.
C10_RejectedAborts ==
  poll_monitor.rejected_at # 0 =>
    /\ Polls = poll_monitor.rejected_at
    /\ results = <<>>
    /\ raised = "gave status"
    /\ Ended

C10_Witness ==
  /\ poll_monitor.rejected_at >= 2
  /\ pc = "done"

\* C11 (as amended): a local precondition error is reported and no network
\* call is made in its run; a bad combination of analyzer flags exits with
\* code 2 or 3, while a missing file is logged as an error and the run goes
\* on to the final print of the empty results instead of exiting with a
\* code of its own.
BadCombination ==
  /\ ~args.get_configuration
  /\ (args.analyzers_list # <<>>) = args.run_all_available_analyzers

MissingFile ==
  /\ args.command = "file"
  /\ ~args.file_exists

C12_UnexpectedStatusAborts ==
  /\ [](submit_status \notin {"?", "accepted"} =>
          Ended /\ raised # "" /\ Polls = 0)
  /\ [][ ( /\ poll_monitor.only_running_pending
           /\ ~poll_monitor'.only_running_pending
           /\ poll_monitor'.terminal_at = 0 ) =>
         ( /\ pc' = "done"
           /\ raised' \notin
                {"", "Reached polling timeout without results"} ) ]_vars

\* C13: every error path ends in the final print of the results, whatever
\* the flags, and the process ends normally with exit code 0.
C13_ErrorsFallThrough ==
  (pc = "done" /\ raised # "") =>
    /\ printed \in {"results", "colors"}
    /\ exit_code = 0

\* C14: lower-casing the observable is idempotent, and two observable
\* values that differ only in letter case are sent with the same value
\* and the same fingerprint.
CasePairs == {{"E", "e"}, {"X", "x"}}

SameUpToCase(s, t) ==
  /\ Len(s) = Len(t)
  /\ \A i \in 1..Len(s) : s[i] = t[i] \/ {s[i], t[i]} \in CasePairs

C14_NormalizationIdempotent ==
  /\ norm.pc = "twice" => norm.again = norm.sent_a
  /\ norm.pc \in {"once", "twice"} /\ SameUpToCase(norm.a, norm.b) =>
       norm.sent_a = norm.sent_b

C14_Witness ==
  /\ norm.pc = "twice"
  /\ Len(norm.a) = 2
  /\ norm.a # norm.b
  /\ SameUpToCase(norm.a, norm.b)
  /\ norm.sent_a.value # norm.a
  /\ norm.sent_a.value # norm.b

\* C15: the remote calls of a run are sequential and ordered: at most one
\* availability call and one submission call, the availability call before
\* the submission call, every poll after a job id was obtained from one of
\* them, and no remote call after a call that failed (non-empty errors, a
\* contract violation or a transport exception).
Availabilities == calls["ask_analysis_availability"]

JobObtained ==
  \/ avail_job # 0
  \/ submit_status = "accepted" /\ job_id_to_get # 0

\* a call of the run has failed: an exception was raised for it, its
\* answer had errors, or a poll answered something else than running,
\* pending or a terminal status
CallFailed ==
  \/ raised # ""
  \/ errors_from # ""
  \/ /\ Polls > 0
     /\ ~poll_monitor.only_running_pending
     /\ poll_monitor.terminal_at = 0

C15_SequentialCalls ==
  /\ [](Availabilities <= 1 /\ Submissions <= 1)
  /\ [][Availabilities' > Availabilities =>
          Submissions = 0 /\ Polls = 0]_vars
  /\ [][Submissions' > Submissions => Polls = 0]_vars
  /\ [][Polls' > Polls => JobObtained]_vars
  /\ [][CallFailed => calls' = calls]_vars

\* C16: with --skip-check-analysis-availability the availability call is
\* never made and exactly one submission call is made, before any poll;
\* without it, an availability answer "not_available" is followed by
\* exactly one submission call, made after the availability call and
\* before any poll.
C16_SubmitOnce ==
  /\ [](args.skip_check_analysis_availability => Availabilities = 0)
  /\ [](Submissions <= 1)
  /\ []( ( /\ \/ args.skip_check_analysis_availability
              \/ avail_status = "not_available"
           /\ \/ Polls > 0
              \/ pc = "poll" )
         => Submissions = 1 )
  /\ [](avail_status = "not_available" =>
          /\ Availabilities = 1
          /\ (pc = "done" => Submissions = 1))
  /\ [][ ( /\ pc = "submit"
           /\ \/ args.skip_check_analysis_availability
              \/ avail_status = "not_available" )
         => (Submissions = 0 /\ Submissions' = 1 /\ Polls' = 0) ]_vars

C16_Witness ==
  /\ avail_status = "not_available"
  /\ Availabilities = 1
  /\ Submissions = 1
  /\ Polls >= 2
  /\ pc = "done"

\* C17: an answer without an expected field aborts the run: a missing
\* status in the availability, submission or poll answer, a missing job_id
\* with a reusable availability status and a missing job_id in an accepted
\* submission each end the run with an error, empty results and no poll
\* after the answer.
MissingField ==
  \/ avail_status = ""
  \/ avail_status = "other" /\ avail_job = 0
  \/ submit_status = ""
  \/ submit_status = "accepted" /\ job_id_to_get = 0
  \/ poll_monitor.nostatus_at # 0

C17_MissingFieldAborts ==
  MissingField =>
    /\ Ended
    /\ raised \in {"without status", "without job_id"}
    /\ results = <<>>
    /\ Polls = poll_monitor.nostatus_at
    /\ (avail_status \in {"", "other"} => Submissions = 0)

C17_Witness ==
  /\ poll_monitor.nostatus_at >= 2
  /\ pc = "done"
  /\ raised = "without status"

\* C18: the timeout error is raised only after 1200 polls none of which
\* returned a terminal status, and a run in which a poll returned a
\* terminal status ends without error whatever its results payload is.
C18_TimeoutOnlyAfterCap ==
  /\ raised = "Reached polling timeout without results" =>
       /\ Polls = 1200
       /\ poll_monitor.terminal_at = 0
  /\ poll_monitor.terminal_at # 0 /\ pc = "done" => raised = ""

\* C19: every availability and submission request carries exactly one
\* analyzer selection: a non-empty analyzer list or the run-all flag,
\* never both and never neither.
C19_OneSelection ==
  \A sel \in requests : (sel[1] # <<>>) # sel[2]

\* C20: every poll of a run is made with the same non-empty job id, the
\* one returned by the availability answer or by the accepted submission
\* answer; it is set when polling starts and does not change during
\* polling.
C20_OneJob ==
  /\ [](Cardinality(poll_ids) <= 1 /\ 0 \notin poll_ids)
  /\ [](poll_ids # {} =>
          \/ poll_ids = {avail_job}
          \/ submit_status = "accepted" /\ poll_ids = {job_id_to_get})
  /\ [](pc = "poll" =>
          /\ job_id_to_get \in 1..MaxJobId
          /\ job_id_to_get = avail_job \/ submit_status = "accepted")
  /\ [][pc = "poll" => job_id_to_get' = job_id_to_get]_vars

C20_Witness ==
  /\ Polls >= 3
  /\ submit_status = "accepted"
  /\ poll_ids = {job_id_to_get}
  /\ pc = "done"
====
